---------------------------- MODULE Spec2Model ----------------------------
(***************************************************************************)
(* Model of Gas-EV-Prices.py: the AAA fuel / EV price scraper.             *)
(*                                                                         *)
(* Text is a sequence of tokens; the token " " is whitespace and the       *)
(* token "$" the currency symbol, so that str.strip, str.replace and the   *)
(* float conversion are computed and not assumed.  A DataFrame is a record *)
(* of ordered column names and positional rows.                            *)
(***************************************************************************)
EXTENDS Integers, Sequences, FiniteSets, TLC

VARIABLES
    pc,          \* position of main (or of the function under test)
    token,       \* GITHUB_TOKEN as read from the environment
    response,    \* the requests.Response of the GET last answered
    libFails,    \* whether pd.read_html raises for reasons of its own
    gas_df,      \* main's gas_df
    ev_df,       \* main's ev_df
    merged_df,   \* main's merged_df
    raw_url,     \* value returned by update_github_gist
    gets,        \* GET requests issued, per target
    got,         \* final status of the answer to each GET, 0 before it
    patches,     \* PATCH requests issued
    waits,       \* completed time.sleep(1) calls of the crawl delay
    stages,      \* pipeline stages completed, in order
    exc,         \* the exception raised inside main's try block
    xtrace,      \* which extraction paths ran in the last extract_table_data
    out          \* final messages printed by main

vars == <<pc, token, response, libFails, gas_df, ev_df, merged_df, raw_url,
          gets, got, patches, waits, stages, exc, xtrace, out>>

---------------------------------------------------------------------------
(* Bounds of the model *)

MaxRows == 2

MaxTableRows == 2

MaxLeft == 2

MaxRight == 2

---------------------------------------------------------------------------
(* Text *)

SP == " "

RECURSIVE LStrip(_)
LStrip(s) == IF s # <<>> /\ Head(s) = SP THEN LStrip(Tail(s)) ELSE s

RECURSIVE RStrip(_)
RStrip(s) ==
    IF s # <<>> /\ s[Len(s)] = SP THEN RStrip(SubSeq(s, 1, Len(s) - 1)) ELSE s

\* str.strip()
Strip(s) == RStrip(LStrip(s))

\* str.replace('$', '', regex=False): every occurrence is removed
RemoveDollar(s) == SelectSeq(s, LAMBDA t : t # "$")

NumTokens == {"3.10", "0.30", "7"}

\* float(s) accepts surrounding whitespace and nothing else around the number
IsNumeric(s) == Len(Strip(s)) = 1 /\ Strip(s)[1] \in NumTokens

StateCol == <<"State">>

CostCol == <<"Cost/kWh">>

---------------------------------------------------------------------------
(* Cells and DataFrames *)

StrCell(s) == [t |-> "str", v |-> s]

NumCell(s) == [t |-> "num", v |-> Strip(s)]

NaN == [t |-> "nan", v |-> <<>>]

EmptyDF == [columns |-> <<>>, rows |-> <<>>]

\* the element of a one-element set; The({e(x) : x \in {v}}) is e(v) with v
\* evaluated once
The(S) == CHOOSE y \in S : TRUE

Index(seq, x) == CHOOSE i \in 1..Len(seq) : seq[i] = x /\ \A j \in 1..(i-1) : seq[j] # x

HasColumn(df, name) == \E i \in 1..Len(df.columns) : df.columns[i] = name

\* astype(str): the text of the value
AsStr(cell) == IF cell.t = "nan" THEN StrCell(<<"nan">>) ELSE StrCell(cell.v)

\* .str.strip()
StripCell(cell) == IF cell.t = "str" THEN StrCell(Strip(cell.v)) ELSE NaN

\* pd.to_numeric(..., errors='coerce') of one value
ToNumericCoerce(cell) ==
    IF cell.t = "num" THEN cell
    ELSE IF cell.t = "str" /\ IsNumeric(cell.v) THEN NumCell(cell.v)
    ELSE NaN

\* the Series methods the program applies to a column
ApplyCell(how, cell) ==
    CASE how = "astype_str_strip" -> StripCell(AsStr(cell))
      [] how = "str_strip" -> StripCell(cell)
      [] how = "to_numeric_coerce" -> ToNumericCoerce(cell)

\* df[name] = df[name].<how>, cell by cell
MapColumn(df, name, how) ==
    The({[columns |-> d.columns,
          rows |-> [r \in 1..Len(d.rows) |->
                      [c \in 1..Len(d.columns) |->
                          IF d.columns[c] = name /\ c = Index(d.columns, name)
                          THEN ApplyCell(how, d.rows[r][c]) ELSE d.rows[r][c]]]]
         : d \in {df}})

Return(v) == [ok |-> TRUE, val |-> v, exc |-> "none"]

Raise(e) == [ok |-> FALSE, val |-> EmptyDF, exc |-> e]

---------------------------------------------------------------------------
(* HTML documents: at most one <table>, a header row of <th> cells and     *)
(* data rows of <td> cells, each row as wide as the header row.            *)

NoTableDoc == [table |-> FALSE, headers |-> <<>>, rows |-> <<>>]

TableDoc(h, rs) == [table |-> TRUE, headers |-> h, rows |-> rs]

\* sequences over S of length at most n
RECURSIVE SeqsUpTo(_, _)
SeqsUpTo(S, n) ==
    IF n = 0 THEN {<<>>}
    ELSE LET shorter == SeqsUpTo(S, n - 1)
         IN shorter \cup {Append(q, x) : q \in shorter, x \in S}

RegionTexts == {<<"CA">>, <<SP, "CA", SP>>, <<"TX">>, <<"7">>}

PriceTexts == {<<"$", "3.10">>, <<"0.30">>, <<"N/A">>}

HeaderRows ==
    {<<h, p>> : h \in {StateCol, <<SP, "State", SP>>, <<"Region">>},
                p \in {<<"Regular">>, CostCol}}

DataRows == {<<r, p>> : r \in RegionTexts, p \in PriceTexts}

\* the documents the extractor is exercised on
Docs ==
    {NoTableDoc} \cup
    {TableDoc(h, rs) : h \in HeaderRows, rs \in SeqsUpTo(DataRows, MaxTableRows)}

\* the pages a run of main may be served
PageRows == {<<<<"CA">>, <<"$", "3.10">>>>, <<<<SP, "TX", SP>>, <<"N/A">>>>}

Pages ==
    {NoTableDoc} \cup
    {TableDoc(h, rs) :
        h \in {<<StateCol, <<"Regular">>>>, <<<<"Region">>, CostCol>>},
        rs \in SeqsUpTo(PageRows, MaxRows)}

---------------------------------------------------------------------------
(* Table extraction *)

\* pandas infers a numeric column when every cell of it parses as a number
NumericColumn(doc, c) ==
    doc.rows # <<>> /\ \A r \in 1..Len(doc.rows) : IsNumeric(doc.rows[r][c])

\* pd.read_html(response_text): the list of tables, or an error when the
\* document has no table or the library fails (no parser installed, markup
\* it cannot read)
ReadHtml(doc, fails) ==
    IF fails THEN [ok |-> FALSE, tables |-> <<>>, exc |-> "ImportError"]
    ELSE IF ~doc.table THEN [ok |-> FALSE, tables |-> <<>>, exc |-> "ValueError"]
    ELSE [ok |-> TRUE, exc |-> "none", tables |->
            << [columns |-> doc.headers,
                rows |-> [r \in 1..Len(doc.rows) |->
                            [c \in 1..Len(doc.headers) |->
                                IF NumericColumn(doc, c)
                                THEN NumCell(doc.rows[r][c])
                                ELSE StrCell(doc.rows[r][c])]]] >>]

\* df['State'] = df['State'].astype(str).str.strip()
CleanState(df) ==
    MapColumn(df, StateCol, "astype_str_strip")

\* df.rename(columns={df.columns[0]: 'State'})
RenameFirst(df) ==
    [df EXCEPT !.columns =
        [c \in 1..Len(df.columns) |->
            IF df.columns[c] = df.columns[1] THEN StateCol ELSE df.columns[c]]]

\* the body of the try block of extract_table_data
\* df.columns = [str(col).strip() for col in df.columns]
StripColumns(df) ==
    [df EXCEPT !.columns = [c \in 1..Len(df.columns) |-> Strip(df.columns[c])]]

\* lines 52-63: normalisation of the table read_html found
Normalise(df) ==
    IF HasColumn(df, StateCol) THEN CleanState(df)
    ELSE IF Len(df.columns) > 0 THEN CleanState(RenameFirst(df))
    ELSE df

\* the try block once read_html has returned
Primary(r) ==
    IF ~r.ok THEN Raise(r.exc)
    ELSE IF Len(r.tables) = 0 THEN Raise("ValueError")
    ELSE The({Return(Normalise(df)) : df \in {StripColumns(r.tables[1])}})

PrimaryPath(doc, fails) == The({Primary(r) : r \in {ReadHtml(doc, fails)}})

\* df[col].str.replace('$', '', regex=False).astype(float) for col != 'State'
NumericCleanFails(df) ==
    \E c \in 1..Len(df.columns) :
        /\ df.columns[c] # StateCol
        /\ \E r \in 1..Len(df.rows) : ~IsNumeric(RemoveDollar(df.rows[r][c].v))

NumericClean(df) ==
    [df EXCEPT !.rows =
        [r \in 1..Len(df.rows) |->
            [c \in 1..Len(df.columns) |->
                IF df.columns[c] # StateCol
                THEN NumCell(RemoveDollar(df.rows[r][c].v))
                ELSE df.rows[r][c]]]]

extract_table_manually(doc) ==
    IF ~doc.table THEN Raise("ValueError")
    ELSE LET headers == [c \in 1..Len(doc.headers) |-> Strip(doc.headers[c])]
             rows == [r \in 1..Len(doc.rows) |->
                        [c \in 1..Len(doc.rows[r]) |-> StrCell(Strip(doc.rows[r][c]))]]
             df == [columns |-> headers, rows |-> rows]
         IN IF \E r \in 1..Len(rows) : Len(rows[r]) # Len(headers)
            THEN Raise("ValueError")
            ELSE IF NumericCleanFails(df) THEN Raise("ValueError")
            ELSE Return(NumericClean(df))

\* a result together with the paths that produced it
Traced(res, primaryRaised, fallbackRan) ==
    [ok |-> res.ok, val |-> res.val, exc |-> res.exc,
     primaryRaised |-> primaryRaised, fallbackRan |-> fallbackRan]

\* mutant: an error of the fallback path is swallowed
extract_table_data_swallow(doc, fails) ==
    The({IF primary.ok THEN Traced(primary, FALSE, FALSE)
         ELSE The({IF manual.ok THEN Traced(manual, TRUE, TRUE)
                   ELSE Traced(Return(EmptyDF), TRUE, TRUE)
                   : manual \in {extract_table_manually(doc)}})
         : primary \in {PrimaryPath(doc, fails)}})

extract_table_data(doc, fails) ==
    The({IF primary.ok THEN Traced(primary, FALSE, FALSE)
         ELSE The({Traced(manual, TRUE, TRUE)
                   : manual \in {extract_table_manually(doc)}})
         : primary \in {PrimaryPath(doc, fails)}})

---------------------------------------------------------------------------
(* Merge *)

\* mutant: the State column is left as it came
StripState_noop(df) == df

\* df['State'] = df['State'].str.strip()
StripState(df) == MapColumn(df, StateCol, "str_strip")

KeyOf(df, row) == row[Index(df.columns, StateCol)]

\* the positions of the columns other than the join key
NonKey(df) == SelectSeq([c \in 1..Len(df.columns) |-> c],
                        LAMBDA c : df.columns[c] # StateCol)

\* the rows of right whose key equals k, in right's order
Matches(right, k) == SelectSeq(right.rows, LAMBDA row : KeyOf(right, row) = k)

Joined(left, right, lrow, rrow) ==
    lrow \o [i \in 1..Len(NonKey(right)) |-> rrow[NonKey(right)[i]]]

Unmatched(left, right, lrow) ==
    lrow \o [i \in 1..Len(NonKey(right)) |-> NaN]

\* mutant: how='inner', a left row without a match is dropped
LeftJoinRow_inner(left, right, lrow) ==
    LET ms == Matches(right, KeyOf(left, lrow))
    IN [i \in 1..Len(ms) |-> Joined(left, right, lrow, ms[i])]

\* how='left': every left row, once per matching right row, once if none
LeftJoinRow(left, right, lrow) ==
    LET ms == Matches(right, KeyOf(left, lrow))
    IN IF ms = <<>> THEN <<Unmatched(left, right, lrow)>>
       ELSE [i \in 1..Len(ms) |-> Joined(left, right, lrow, ms[i])]

RECURSIVE JoinRows(_, _, _)
JoinRows(left, right, i) ==
    IF i > Len(left.rows) THEN <<>>
    ELSE LeftJoinRow(left, right, left.rows[i]) \o JoinRows(left, right, i + 1)

\* a column name shared by both tables gets the suffix of its side
Suffixed(name, other, suffix) ==
    IF name # StateCol /\ HasColumn(other, name) THEN Append(name, suffix) ELSE name

MergedColumns(left, right) ==
    [c \in 1..Len(left.columns) |-> Suffixed(left.columns[c], right, "_x")]
    \o [i \in 1..Len(NonKey(right)) |->
            Suffixed(right.columns[NonKey(right)[i]], left, "_y")]

\* pd.merge(gas_df, ev_df, on='State', how='left')
PdMerge(left, right) ==
    [columns |-> MergedColumns(left, right), rows |-> JoinRows(left, right, 1)]

merge_data(gas, ev) ==
    IF ~HasColumn(gas, StateCol) \/ ~HasColumn(ev, StateCol) THEN Raise("KeyError")
    ELSE Return(PdMerge(StripState(gas), StripState(ev)))

\* the tables merge_data is exercised on
LeftKeys == {<<"CA">>, <<SP, "CA", SP>>, <<"TX">>}

RightKeys == {<<"CA">>, <<SP, "CA", SP>>, <<"NV">>}

LeftTables ==
    {[columns |-> <<h, <<"Regular">>>>, rows |-> rs] :
        h \in {StateCol, <<"Region">>},
        rs \in SeqsUpTo({<<StrCell(k), NumCell(<<"3.10">>)>> : k \in LeftKeys}, MaxLeft)}

RightTables ==
    {[columns |-> <<h, CostCol>>, rows |-> rs] :
        h \in {StateCol, <<"Region">>},
        rs \in SeqsUpTo({<<StrCell(k), NumCell(<<"0.30">>)>> : k \in RightKeys}, MaxRight)}

---------------------------------------------------------------------------
(* Fetcher *)

CrawlDelay == 10

\* final statuses requests.get can hand back: redirects with a Location are
\* followed, a 3xx without one is returned as it is
GetStatuses == {200, 300, 403, 500}

\* mutant: raise_for_status is not called
RaisesForStatus_never(status) == FALSE

\* Response.raise_for_status(): HTTPError for 4xx and 5xx
RaisesForStatus(status) == 400 <= status /\ status < 600

NoResponse == [kind |-> "none", status |-> 0, text |-> NoTableDoc]

\* what a GET can come back with: a response, or a transport error
GetOutcomes ==
    {[kind |-> "response", status |-> st, text |-> d] :
        st \in {s \in GetStatuses : ~RaisesForStatus(s)}, d \in Pages}
    \cup {[kind |-> "response", status |-> st, text |-> NoTableDoc] :
            st \in {s \in GetStatuses : RaisesForStatus(s)}}
    \cup {[kind |-> "error", status |-> 0, text |-> NoTableDoc]}

---------------------------------------------------------------------------
(* Publisher *)

None == "None"

RawUrl == "https://gist.githubusercontent.com/raw/aaa_prices.json"

\* os.environ.get('GITHUB_TOKEN'): unset, set to the empty string, or set
Tokens == {None, "", "ghp_token"}

\* Python truth value of a string or None
Truthy(x) == x # None /\ x # ""

\* the module defines update_github_gist twice; each def statement rebinds
\* the name, so a call made after the module has loaded runs the last one
GistDefs == <<"def_line_32", "def_line_149">>

BoundGistDef == GistDefs[Len(GistDefs)]

\* the definition at line 32 returns None when the token is falsy
ChecksToken(d) == d = "def_line_32"

\* the definition at line 149 builds the payload and sends the PATCH
SendsPatch(d) == d = "def_line_149"

PatchStatuses == {200, 401, 404}

\* what the PATCH can come back with; the store answers 200 only to a
\* request that carries a token
PatchOutcomes(tok) ==
    {[kind |-> "response", status |-> st, body |-> b] :
        st \in {s \in PatchStatuses : s = 200 => Truthy(tok)},
        b \in {"gist", "other"}}
    \cup {[kind |-> "timeout", status |-> 0, body |-> "none"],
          [kind |-> "error", status |-> 0, body |-> "none"]}

\* mutant: the status of the answer is not looked at
PatchResult_nostatus(o) ==
    IF o.kind = "response" /\ o.body = "gist"
    THEN [ok |-> TRUE, val |-> RawUrl, exc |-> "none"]
    ELSE [ok |-> TRUE, val |-> None, exc |-> "none"]

\* lines 181-200: the value returned for an outcome, or the error that
\* leaves the function (result['files'][...] on a body without that key)
PatchResult(o) ==
    IF o.kind = "response" /\ o.status = 200
    THEN IF o.body = "gist" THEN [ok |-> TRUE, val |-> RawUrl, exc |-> "none"]
         ELSE [ok |-> FALSE, val |-> None, exc |-> "KeyError"]
    ELSE [ok |-> TRUE, val |-> None, exc |-> "none"]

---------------------------------------------------------------------------
(* Orchestrator *)

\* classes derived from Exception among those the pipeline raises
ExceptionClasses ==
    {"HTTPError", "ConnectionError", "ValueError", "KeyError", "ImportError"}

\* mutant: main has the HTTPError clause only
Handler_httpOnly(e) == IF e = "HTTPError" THEN "http" ELSE "uncaught"

\* the except clauses of main, in order
Handler(e) ==
    IF e = "HTTPError" THEN "http"
    ELSE IF e \in ExceptionClasses THEN "unexpected"
    ELSE "uncaught"

HandlerOutput(e, status) ==
    IF Handler(e) = "http"
    THEN IF status = 403 THEN <<"http_error", "blocked">> ELSE <<"http_error">>
    ELSE IF Handler(e) = "unexpected" THEN <<"unexpected_error">>
    ELSE <<>>

\* mutant: the handler starts the run again
Fail_retry(e, status) ==
    /\ exc' = e
    /\ out' = HandlerOutput(e, status)
    /\ pc' = "start"

\* an exception raised inside the try block of main
Fail(e, status) ==
    /\ exc' = e
    /\ out' = HandlerOutput(e, status)
    /\ pc' = IF Handler(e) = "uncaught" THEN "crashed" ELSE "done"

NoTrace == [primaryRaised |-> FALSE, fallbackRan |-> FALSE]

Init ==
    /\ pc = "start"
    /\ token \in Tokens
    /\ response = NoResponse
    /\ libFails = FALSE
    /\ gas_df = EmptyDF
    /\ ev_df = EmptyDF
    /\ merged_df = EmptyDF
    /\ raw_url = None
    /\ gets = [gas |-> 0, ev |-> 0]
    /\ got = [gas |-> 0, ev |-> 0]
    /\ patches = 0
    /\ waits = 0
    /\ stages = <<>>
    /\ exc = "none"
    /\ xtrace = NoTrace
    /\ out = <<>>

\* make_respectful_request(TARGET_URLS['gas_prices']): requests.get is sent
GasRequest ==
    /\ pc = "start"
    /\ gets' = [gets EXCEPT !.gas = @ + 1]
    /\ pc' = "gas_inflight"
    /\ UNCHANGED <<token, got, response, libFails, gas_df, ev_df, merged_df, raw_url,
                   patches, waits, stages, exc, xtrace, out>>

\* requests.get returns or raises; raise_for_status
Answered(o, target, stage, next) ==
    /\ response' = [kind |-> o.kind, status |-> o.status, text |-> o.text]
    /\ got' = [got EXCEPT ![target] = o.status]
    /\ IF o.kind = "error" THEN Fail("ConnectionError", 0) /\ UNCHANGED stages
       ELSE IF RaisesForStatus(o.status)
            THEN Fail("HTTPError", o.status) /\ UNCHANGED stages
       ELSE /\ stages' = Append(stages, stage)
            /\ pc' = next
            /\ UNCHANGED <<exc, out>>

GasResponse ==
    /\ pc = "gas_inflight"
    /\ \E o \in GetOutcomes : Answered(o, "gas", "fuel_fetch", "gas_extract")
    /\ UNCHANGED <<token, libFails, gas_df, ev_df, merged_df, raw_url, gets,
                   patches, waits, xtrace>>

\* df = extract_table_data(response.text) in scrape_aaa_gas_prices
GasExtract ==
    /\ pc = "gas_extract"
    /\ \E f \in BOOLEAN : \E r \in {extract_table_data(response.text, f)} :
           /\ libFails' = f
           /\ xtrace' = [primaryRaised |-> r.primaryRaised,
                         fallbackRan |-> r.fallbackRan]
           /\ IF r.ok
              THEN /\ gas_df' = r.val
                   /\ stages' = Append(stages, "fuel_extract")
                   /\ pc' = "ev_sleep"
                   /\ UNCHANGED <<exc, out>>
              ELSE Fail(r.exc, 0) /\ UNCHANGED <<gas_df, stages>>
    /\ UNCHANGED <<token, got, response, ev_df, merged_df, raw_url, gets, patches,
                   waits>>

\* mutant: range(10, 1, -1), one round short
LoopContinues_short(w) == w < CrawlDelay - 1

\* for i in range(10, 0, -1): the loop has another round to go
LoopContinues(w) == w < CrawlDelay

\* time.sleep(1)
Sleep ==
    /\ pc = "ev_sleep"
    /\ LoopContinues(waits)
    /\ waits' = waits + 1
    /\ UNCHANGED <<pc, token, got, response, libFails, gas_df, ev_df, merged_df,
                   raw_url, gets, patches, stages, exc, xtrace, out>>

\* make_respectful_request(TARGET_URLS['ev_prices']) after the loop
EvRequest ==
    /\ pc = "ev_sleep"
    /\ ~LoopContinues(waits)
    /\ gets' = [gets EXCEPT !.ev = @ + 1]
    /\ pc' = "ev_inflight"
    /\ UNCHANGED <<token, got, response, libFails, gas_df, ev_df, merged_df, raw_url,
                   patches, waits, stages, exc, xtrace, out>>

EvResponse ==
    /\ pc = "ev_inflight"
    /\ \E o \in GetOutcomes : Answered(o, "ev", "ev_fetch", "ev_extract")
    /\ UNCHANGED <<token, libFails, gas_df, ev_df, merged_df, raw_url, gets,
                   patches, waits, xtrace>>

\* if 'Cost/kWh' in df.columns: pd.to_numeric(df['Cost/kWh'], errors='coerce')
CoerceCost(df) ==
    IF HasColumn(df, CostCol) THEN MapColumn(df, CostCol, "to_numeric_coerce") ELSE df

\* extraction and cleaning in scrape_aaa_ev_prices
EvExtract ==
    /\ pc = "ev_extract"
    /\ \E f \in BOOLEAN : \E r \in {extract_table_data(response.text, f)} :
           /\ libFails' = f
           /\ xtrace' = [primaryRaised |-> r.primaryRaised,
                         fallbackRan |-> r.fallbackRan]
           /\ IF r.ok
              THEN /\ ev_df' = CoerceCost(r.val)
                   /\ stages' = Append(stages, "ev_extract")
                   /\ pc' = "merge"
                   /\ UNCHANGED <<exc, out>>
              ELSE Fail(r.exc, 0) /\ UNCHANGED <<ev_df, stages>>
    /\ UNCHANGED <<token, got, response, gas_df, merged_df, raw_url, gets, patches,
                   waits>>

\* merged_df = merge_data(gas_df, ev_df); the State columns are stripped in
\* place, gas_df first
Merge ==
    /\ pc = "merge"
    /\ gas_df' = IF HasColumn(gas_df, StateCol) THEN StripState(gas_df) ELSE gas_df
    /\ ev_df' = IF HasColumn(gas_df, StateCol) /\ HasColumn(ev_df, StateCol)
                THEN StripState(ev_df) ELSE ev_df
    /\ \E r \in {merge_data(gas_df, ev_df)} :
          IF r.ok
          THEN /\ merged_df' = r.val
               /\ stages' = Append(stages, "merge")
               /\ pc' = "publish"
               /\ UNCHANGED <<exc, out>>
          ELSE Fail(r.exc, 0) /\ UNCHANGED <<merged_df, stages>>
    /\ UNCHANGED <<token, got, response, libFails, raw_url, gets, patches, waits,
                   xtrace>>

\* raw_url = update_github_gist(merged_df, GITHUB_TOKEN, GIST_ID), up to the
\* point where requests.patch is sent
Publish ==
    /\ pc = "publish"
    /\ IF ChecksToken(BoundGistDef) /\ ~Truthy(token)
       THEN /\ raw_url' = None /\ pc' = "report" /\ UNCHANGED patches
       ELSE IF SendsPatch(BoundGistDef)
            THEN /\ patches' = patches + 1
                 /\ pc' = "patch_inflight"
                 /\ UNCHANGED raw_url
       ELSE /\ raw_url' = None /\ pc' = "report" /\ UNCHANGED patches
    /\ UNCHANGED <<token, got, response, libFails, gas_df, ev_df, merged_df, gets,
                   waits, stages, exc, xtrace, out>>

\* requests.patch returns or raises, and update_github_gist returns
PatchResponse ==
    /\ pc = "patch_inflight"
    /\ \E o \in PatchOutcomes(token) :
        /\ response' = [kind |-> o.kind, status |-> o.status, text |-> NoTableDoc]
        /\ \E r \in {PatchResult(o)} :
              IF r.ok
              THEN /\ raw_url' = r.val
                   /\ pc' = "report"
                   /\ UNCHANGED <<exc, out>>
              ELSE Fail(r.exc, 0) /\ UNCHANGED raw_url
    /\ UNCHANGED <<token, got, libFails, gas_df, ev_df, merged_df, gets, patches,
                   waits, stages, xtrace>>

\* if raw_url: ... else: ...
Report ==
    /\ pc = "report"
    /\ out' = IF Truthy(raw_url) THEN <<"complete", raw_url>> ELSE <<"failed">>
    /\ pc' = "done"
    /\ UNCHANGED <<token, got, response, libFails, gas_df, ev_df, merged_df, raw_url,
                   gets, patches, waits, stages, exc, xtrace>>

Next ==
    \/ GasRequest
    \/ GasResponse
    \/ GasExtract
    \/ Sleep
    \/ EvRequest
    \/ EvResponse
    \/ EvExtract
    \/ Merge
    \/ Publish
    \/ PatchResponse
    \/ Report

Spec == Init /\ [][Next]_vars

\* main is sequential: a step that can be taken is taken, and every request
\* sent is answered or fails
FairSpec == Spec /\ WF_vars(Next)

\* extract_table_data on every document, with and without read_html failing
InitExtract ==
    /\ pc = "gas_extract"
    /\ token = None
    /\ response \in {[kind |-> "response", status |-> 200, text |-> d] : d \in Docs}
    /\ libFails = FALSE
    /\ gas_df = EmptyDF
    /\ ev_df = EmptyDF
    /\ merged_df = EmptyDF
    /\ raw_url = None
    /\ gets = [gas |-> 1, ev |-> 0]
    /\ got = [gas |-> 200, ev |-> 0]
    /\ patches = 0
    /\ waits = 0
    /\ stages = <<"fuel_fetch">>
    /\ exc = "none"
    /\ xtrace = NoTrace
    /\ out = <<>>

ExtractSpec == InitExtract /\ [][GasExtract]_vars

\* merge_data on every pair of tables
InitMerge ==
    /\ pc = "merge"
    /\ token = None
    /\ response = NoResponse
    /\ libFails = FALSE
    /\ gas_df \in LeftTables
    /\ ev_df \in RightTables
    /\ merged_df = EmptyDF
    /\ raw_url = None
    /\ gets = [gas |-> 1, ev |-> 1]
    /\ got = [gas |-> 200, ev |-> 200]
    /\ patches = 0
    /\ waits = CrawlDelay
    /\ stages = <<"fuel_fetch", "fuel_extract", "ev_fetch", "ev_extract">>
    /\ exc = "none"
    /\ xtrace = NoTrace
    /\ out = <<>>

MergeSpec == InitMerge /\ [][Merge]_vars

---------------------------------------------------------------------------
(* Properties of a run of main *)

Pipeline == <<"fuel_fetch", "fuel_extract", "ev_fetch", "ev_extract", "merge">>

IsPrefix(p, q) == Len(p) <= Len(q) /\ SubSeq(q, 1, Len(p)) = p

TokenMissing == token = None \/ token = ""

HttpErrorStatus(st) == st \in 400..599

Non2xx(st) == st # 0 /\ st \notin 200..299

\* C1: called with an absent or empty token, the publisher bound when main
\* calls it returns None and issues no PATCH request.
C1_NoPatchWithoutToken ==
    TokenMissing => patches = 0 /\ (pc = "report" => raw_url = None)

\* C2 as stated: a PATCH is attempted only after fuel fetch, fuel extraction,
\* EV fetch, EV extraction and merge succeeded in that order, and a fetch
\* answered with any non-2xx status ends the run with no PATCH.
C2_PublishOnlyAfterAll_AnyNon2xx ==
    /\ IsPrefix(stages, Pipeline)
    /\ patches > 0 => stages = Pipeline
    /\ (Non2xx(got.gas) \/ Non2xx(got.ev)) => patches = 0

\* C2 amended: a PATCH is attempted only after the five stages succeeded in
\* order; a stage that raises (a fetch answered 403 or another 4xx/5xx
\* status, a transport error, no table, a missing State column) ends the
\* run with no PATCH, and a 403 is reported as blocking.
C2_PublishOnlyAfterAll ==
    /\ IsPrefix(stages, Pipeline)
    /\ patches > 0 => stages = Pipeline
    /\ (exc # "none" /\ stages # Pipeline) => (pc = "done" /\ patches = 0)
    /\ (HttpErrorStatus(got.gas) \/ HttpErrorStatus(got.ev)) =>
           /\ pc = "done" /\ exc = "HTTPError" /\ patches = 0
           /\ (got.gas = 403 \/ got.ev = 403) <=> out = <<"http_error", "blocked">>

C2_Witness ==
    /\ pc = "done" /\ got.gas = 200 /\ got.ev = 403
    /\ stages = <<"fuel_fetch", "fuel_extract">>
    /\ patches = 0

\* C3: the EV-price GET is issued only after 10 one-second waits completed,
\* all of them after the fuel-price fetch returned.
C3_DelayElapsesBeforeEvGet ==
    /\ gets.ev > 0 => waits = 10
    /\ waits > 0 => (got.gas # 0 /\ IsPrefix(<<"fuel_fetch", "fuel_extract">>, stages))
    /\ waits <= 10

C3_Witness == gets.ev = 1 /\ waits = 10 /\ pc = "ev_inflight"

\* C7: at most one GET to the fuel-price URL, one GET to the EV-price URL
\* and one PATCH are issued in a run, also after a failed request.
C7_NoRetry == gets.gas <= 1 /\ gets.ev <= 1 /\ patches <= 1

C7_Witness ==
    /\ pc = "done" /\ patches = 1 /\ response.kind = "timeout"
    /\ gets = [gas |-> 1, ev |-> 1]

---------------------------------------------------------------------------
(* Properties of merge_data, under MergeSpec *)

MergeReturned == pc = "publish"

\* the trimmed region identifiers of a table, in row order
Regions(df) ==
    [i \in 1..Len(df.rows) |-> Strip(df.rows[i][Index(df.columns, StateCol)].v)]

Count(seq, x) == Cardinality({i \in 1..Len(seq) : seq[i] = x})

NoDuplicates(seq) == \A i, j \in 1..Len(seq) : seq[i] = seq[j] => i = j

\* L with each entry repeated once per occurrence in R, once if it has none
RECURSIVE Expand(_, _, _)
Expand(L, R, i) ==
    IF i > Len(L) THEN <<>>
    ELSE [k \in 1..(IF Count(R, L[i]) = 0 THEN 1 ELSE Count(R, L[i])) |-> L[i]]
         \o Expand(L, R, i + 1)

\* the cells of row j of the merged table that come from the right table
EvFields(j) ==
    SubSeq(merged_df.rows[j], Len(gas_df.columns) + 1, Len(merged_df.columns))

UnmatchedRowsNull ==
    \A j \in 1..Len(merged_df.rows) :
        Count(Regions(ev_df), Regions(merged_df)[j]) = 0 =>
            \A c \in 1..Len(EvFields(j)) : EvFields(j)[c] = NaN

RightOnlyAbsent ==
    \A k \in 1..Len(ev_df.rows) :
        Count(Regions(gas_df), Regions(ev_df)[k]) = 0 =>
            Count(Regions(merged_df), Regions(ev_df)[k]) = 0

\* C4 as stated: merge_data(left, right) has exactly as many rows as left,
\* whatever right holds.
C4_RowCountEqualsLeft ==
    MergeReturned => Len(merged_df.rows) = Len(gas_df.rows)

\* C4 amended: merge_data(left, right) has one row per left row and matching
\* right row, and one row for a left row without a match: never fewer rows
\* than left, and exactly as many when no trimmed region identifier occurs
\* in more than one row of right.
C4_RowCountLeftJoin ==
    MergeReturned =>
        /\ Len(merged_df.rows) >= Len(gas_df.rows)
        /\ Len(merged_df.rows) = Len(Expand(Regions(gas_df), Regions(ev_df), 1))
        /\ NoDuplicates(Regions(ev_df)) => Len(merged_df.rows) = Len(gas_df.rows)

C4_Witness ==
    /\ MergeReturned
    /\ ~NoDuplicates(Regions(ev_df))
    /\ Len(gas_df.rows) = 2
    /\ Len(merged_df.rows) = 3

\* C5 as stated: the regions of the result are exactly the left table's
\* regions in the left table's row order; a region only in right never
\* appears and an unmatched left region is kept with null EV fields.
C5_RegionsEqualLeft ==
    MergeReturned =>
        /\ Regions(merged_df) = Regions(gas_df)
        /\ RightOnlyAbsent
        /\ UnmatchedRowsNull

\* C5 amended: the regions of the result are the left table's trimmed
\* regions in the left table's row order, each repeated once per matching
\* right row (so exactly the left's when right has no repeated region); a
\* region only in right never appears and an unmatched left region is kept
\* once, with null EV fields.
C5_RegionsFollowLeft ==
    MergeReturned =>
        /\ Regions(merged_df) = Expand(Regions(gas_df), Regions(ev_df), 1)
        /\ \A j \in 1..Len(merged_df.rows) :
               merged_df.rows[j][Index(merged_df.columns, StateCol)]
                   = StrCell(Regions(merged_df)[j])
        /\ NoDuplicates(Regions(ev_df)) => Regions(merged_df) = Regions(gas_df)
        /\ RightOnlyAbsent
        /\ UnmatchedRowsNull

C5_Witness ==
    /\ MergeReturned
    /\ Regions(gas_df) = <<<<"TX">>, <<"CA">>>>
    /\ Regions(ev_df) = <<<<"NV">>, <<"CA">>>>
    /\ Regions(merged_df) = <<<<"TX">>, <<"CA">>>>
    /\ EvFields(1) = <<NaN>>

---------------------------------------------------------------------------
(* Properties of extract_table_data, under ExtractSpec *)

ExtractReturned == pc = "ev_sleep"

ExtractRaised == pc = "done"

SourceHasState ==
    \E c \in 1..Len(response.text.headers) : Strip(response.text.headers[c]) = StateCol

Trimmed(cell) == cell.t = "str" /\ Strip(cell.v) = cell.v

\* C6: a table returned with at least one column, by either path, has a
\* column named State; when the source had none, it is the renamed first
\* column, and its values are trimmed.
C6_StateColumnPresent ==
    (ExtractReturned /\ Len(gas_df.columns) > 0) =>
        /\ HasColumn(gas_df, StateCol)
        /\ ~SourceHasState => gas_df.columns[1] = StateCol
        /\ \A r \in 1..Len(gas_df.rows) :
               Trimmed(gas_df.rows[r][Index(gas_df.columns, StateCol)])

\* C10: the fallback path runs exactly when the primary path raised, and an
\* error of the fallback path reaches the caller: no table is returned.
C10_FallbackIffPrimaryRaised ==
    (ExtractReturned \/ ExtractRaised) =>
        /\ xtrace.fallbackRan <=> ~PrimaryPath(response.text, libFails).ok
        /\ xtrace.primaryRaised <=> ~PrimaryPath(response.text, libFails).ok
        /\ ~xtrace.fallbackRan =>
               ExtractReturned /\ gas_df = PrimaryPath(response.text, libFails).val
        /\ (xtrace.fallbackRan /\ ~extract_table_manually(response.text).ok) =>
               /\ ExtractRaised
               /\ exc = extract_table_manually(response.text).exc
               /\ gas_df = EmptyDF
        /\ (xtrace.fallbackRan /\ extract_table_manually(response.text).ok) =>
               ExtractReturned /\ gas_df = extract_table_manually(response.text).val

C10_Witness ==
    /\ ExtractRaised
    /\ xtrace.fallbackRan
    /\ response.text.table
    /\ libFails
    /\ exc = "ValueError"

===========================================================================
